---- MODULE Spec2Model ----
(***************************************************************************)
(* Model of simupy/systems/symbolic.py: the symbolic DynamicalSystem and   *)
(* its MemorylessSystem specialisation.  An instance is a record of its    *)
(* attributes; every property setter is an operator from the instance (and *)
(* the constants dictionary it reads) to the instance it leaves behind and *)
(* the exception it raised, if any.  Dictionaries live in a heap so that   *)
(* two instances holding the same dict object are visible as such.         *)
(***************************************************************************)
EXTENDS Integers, Sequences, FiniteSets, TLC

VARIABLES
  sys,     \* the instance bound to each name, or NoInstance
  heap,    \* the content of every dict object
  last,    \* the operation just performed and how it ended
  copied   \* the pairs <<source, copy>> made by copy()

vars == <<sys, heap, last, copied>>

(* ------------------------------------------------------------------ *)
(* Bounds.                                                             *)
(* ------------------------------------------------------------------ *)
\* The numeric values a constant is bound to are 1..MaxConstValue.
MaxConstValue == 2

\* The names the callers bind instances to: s, and c as in c = s.copy().
Insts == {"s", "c"}
\* Dict objects: "default" is the dict created once, at definition time, for
\* the default argument constants_values={} of __init__; i is the dict the
\* caller builds for the construction of instance i.
Refs == {"default"} \cup Insts

(* ------------------------------------------------------------------ *)
(* Symbolic expressions.  A scalar expression is its head (what kind   *)
(* of expression it is), the dynamic symbols x(t) it contains, the     *)
(* plain Symbols it contains besides time, and the numeric values that *)
(* subs() has put in the place of Symbols.                             *)
(* ------------------------------------------------------------------ *)
Comp(f, dyn, sym) == [f |-> f, dyn |-> dyn, sym |-> sym, vals |-> {}]

\* A dynamicsymbol d(t).
DynSym(d) == Comp(<<"sym", d>>, {d}, {})

\* dynamicsymbols._t
TimeSymbol == Comp(<<"t">>, {}, {})

None == [tag |-> "None", elems |-> <<>>]
Arr(s) == [tag |-> "Array", elems |-> s]
Scalar(e) == [tag |-> "Expr", elems |-> <<e>>]
Mat(rows) == [tag |-> "Matrix", elems |-> rows]
NdArray(s) == [tag |-> "ndarray", elems |-> s]

\* simupy.array.empty_array(): an Array of length 0.
empty_array == Arr(<<>>)

\* np.zeros(n)
np_zeros(n) == NdArray([k \in 1..n |-> 0])

\* len(v) raises TypeError on a bare sympy expression.
HasLen(v) == v.tag \in {"Array", "Matrix", "ndarray"}
len(v) == Len(v.elems)

\* isinstance(v, sp.Expr)
IsExpr(v) == v.tag = "Expr"

\* set(v) for a vector v
SetOf(v) == {v.elems[k] : k \in 1..Len(v.elems)}

\* sp.flatten(v)
flatten(v) == v.elems

\* find_dynamicsymbols(v): the dynamic symbols of every component.
find_dynamicsymbols(v) == {DynSym(d) : d \in UNION {e.dyn : e \in SetOf(v)}}

\* v.atoms(sp.Symbol): the plain Symbols, and time under every d(t).
atoms_Symbol(v) ==
  UNION {e.sym \cup (IF e.dyn # {} \/ e.f = <<"t">> THEN {"t"} ELSE {}) : e \in SetOf(v)}

\* A constants dictionary is a set of <<symbol, value>> pairs, one per key.
Keys(cv) == {p[1] : p \in cv}

SubsComp(e, cv) ==
  [e EXCEPT !.sym = e.sym \ Keys(cv),
            !.vals = e.vals \cup {p \in cv : p[1] \in e.sym}]

\* v.subs(constants_values)
subs(v, cv) ==
  IF v.tag = "Matrix"
  THEN Mat([r \in 1..Len(v.elems) |->
              [c \in 1..Len(v.elems[r]) |-> SubsComp(v.elems[r][c], cv)]])
  ELSE [v EXCEPT !.elems = [k \in 1..Len(v.elems) |-> SubsComp(v.elems[k], cv)]]

Zero == Comp(<<"0">>, {}, {})

\* sp.diff(e, b) for a dynamic symbol b
Diff(e, b) ==
  IF b.dyn \subseteq e.dyn /\ b.dyn # {}
  THEN [e EXCEPT !.f = <<"d">> \o b.f \o e.f]
  ELSE Zero

\* simupy.utils.symbolic.grad(f, basis): rows are the components of f,
\* columns the symbols of basis.
grad(f, basis) ==
  Mat([r \in 1..Len(f.elems) |->
         [c \in 1..Len(basis.elems) |-> Diff(f.elems[r], basis.elems[c])]])

(* ------------------------------------------------------------------ *)
(* Instances.                                                          *)
(* ------------------------------------------------------------------ *)
\* A callable attribute that was never assigned.
NoFn == [tag |-> "absent", args |-> <<>>, expr |-> None]

\* What code_generator(args, expr, **code_generator_args) returns: the
\* callable compiled from expr over the ordered argument list args.
code_generator(args, expr) == [tag |-> "callable", args |-> args, expr |-> expr]

\* A slot that holds no instance; also the attribute-less object that
\* __init__ starts from.
NoInstance ==
  [cls |-> "none",
   constants_values |-> "default",
   _state |-> None, dim_state |-> 0,
   _initial_condition |-> None,
   _inputs |-> None, dim_input |-> 0,
   _state_equation |-> None,
   state_equation_function |-> NoFn,
   state_jacobian_equation |-> None,
   state_jacobian_equation_function |-> NoFn,
   input_jacobian_equation |-> None,
   input_jacobian_equation_function |-> NoFn,
   _output_equation |-> None, dim_output |-> 0,
   output_equation_function |-> NoFn,
   dt |-> 0]

\* The outcome of running a piece of code on an instance: the instance as
\* the code left it, and "ok" or the exception that ended it.
\* An exception is its type and the source line that raised it.
NoError == [exc |-> "ok", line |-> 0]
Ok(o) == [o |-> o, r |-> NoError]
Raise(o, e, l) == [o |-> o, r |-> [exc |-> e, line |-> l]]

\* Sequencing: the rest runs only if no exception is in flight.
Then(res, rest(_)) == IF res.r = NoError THEN rest(res.o) ELSE res

(* ------------------------------------------------------------------ *)
(* Property setters.  cv is the content of self.constants_values; gen  *)
(* tells, for each code-generator call the setter makes, whether the   *)
(* generator returns (TRUE) or raises.                                 *)
(* ------------------------------------------------------------------ *)
DynamicalSystem_state_setter(self, state) ==
  LET s1 == IF state.tag = "None" THEN empty_array ELSE state
      s2 == IF IsExpr(s1) THEN Arr(<<s1.elems[1]>>) ELSE s1
  IN  Ok([self EXCEPT !.dim_state = len(s2), !._state = s2])

\* A MemorylessSystem without its override of the state setter.
MemorylessSystem_state_setter_Inherited(self, state) ==
  DynamicalSystem_state_setter(self, state)

\* A MemorylessSystem state setter that also takes an empty vector.
MemorylessSystem_state_setter_AcceptsEmpty(self, state) ==
  IF state.tag = "None" \/ (HasLen(state) /\ len(state) = 0)
  THEN Ok([self EXCEPT !.dim_state = len(empty_array), !._state = empty_array])
  ELSE Raise(self, "ValueError", 264)

MemorylessSystem_state_setter(self, state) ==
  IF state.tag = "None"
  THEN Ok([self EXCEPT !.dim_state = len(empty_array), !._state = empty_array])
  ELSE Raise(self, "ValueError", 264)

state_setter(self, state) ==
  IF self.cls = "MemorylessSystem"
  THEN MemorylessSystem_state_setter(self, state)
  ELSE DynamicalSystem_state_setter(self, state)

\* The input setter without the update of dim_input (line 101).
input_setter_StaleDim(self, input_) ==
  LET i1 == IF input_.tag = "None" THEN empty_array ELSE input_
      i2 == IF IsExpr(i1) THEN Arr(<<i1.elems[1]>>) ELSE i1
  IN  Ok([self EXCEPT !._inputs = i2])

input_setter(self, input_) ==
  LET i1 == IF input_.tag = "None" THEN empty_array ELSE input_
      i2 == IF IsExpr(i1) THEN Arr(<<i1.elems[1]>>) ELSE i1
  IN  Ok([self EXCEPT !.dim_input = len(i2), !._inputs = i2])

\* The argument list with the input symbols ahead of the state symbols.
StateEquationArgs_InputFirst(self) ==
  <<TimeSymbol>> \o flatten(self._inputs) \o flatten(self._state)

StateEquationArgs(self) ==
  <<TimeSymbol>> \o flatten(self._state) \o flatten(self._inputs)

\* update_state_equation_function without the early return of line 154.
update_state_equation_function_Unguarded(self, cv, genOk) ==
  IF ~genOk THEN Raise(self, "CodeGeneratorError", 156)
  ELSE Ok([self EXCEPT !.state_equation_function =
             code_generator(StateEquationArgs(self), subs(self._state_equation, cv))])

update_state_equation_function(self, cv, genOk) ==
  IF self.dim_state = 0 THEN Ok(self)
  ELSE IF ~genOk THEN Raise(self, "CodeGeneratorError", 156)
  ELSE Ok([self EXCEPT !.state_equation_function =
             code_generator(StateEquationArgs(self), subs(self._state_equation, cv))])

update_state_jacobian_function(self, cv, genOk) ==
  IF self.dim_state = 0 THEN Ok(self)
  ELSE IF ~genOk THEN Raise(self, "CodeGeneratorError", 166)
  ELSE Ok([self EXCEPT !.state_jacobian_equation_function =
             code_generator(StateEquationArgs(self), subs(self.state_jacobian_equation, cv))])

update_input_jacobian_function(self, cv, genOk) ==
  IF self.dim_state = 0 THEN Ok(self)
  ELSE IF ~genOk THEN Raise(self, "CodeGeneratorError", 177)
  ELSE Ok([self EXCEPT !.input_jacobian_equation_function =
             code_generator(StateEquationArgs(self), subs(self.input_jacobian_equation, cv))])

OutputEquationArgs(self) ==
  IF self.dim_state # 0
  THEN <<TimeSymbol>> \o flatten(self._state)
  ELSE <<TimeSymbol>> \o flatten(self._inputs)

update_output_equation_function(self, cv, genOk) ==
  IF self.dim_output = 0 THEN Ok(self)
  ELSE IF ~genOk THEN Raise(self, "CodeGeneratorError", IF self.dim_state # 0 THEN 188 ELSE 194)
  ELSE Ok([self EXCEPT !.output_equation_function =
             code_generator(OutputEquationArgs(self), subs(self._output_equation, cv))])

\* Lines 122-129 with the input Jacobian handled ahead of the state Jacobian.
StoreStateEquation_InputJacobianFirst(self, cv, eq, gen) ==
  LET s1 == [self EXCEPT !._state_equation = eq]
      jac_x(o) ==
        update_state_jacobian_function(
          [o EXCEPT !.state_jacobian_equation = grad(o._state_equation, o._state)],
          cv, gen[2])
      jac_u(o) ==
        update_input_jacobian_function(
          [o EXCEPT !.input_jacobian_equation = grad(o._state_equation, o._inputs)],
          cv, gen[3])
  IN  Then(Then(update_state_equation_function(s1, cv, gen[1]), jac_u), jac_x)

\* Lines 122-129 undone when the code generator raises.
StoreStateEquation_RolledBack(self, cv, eq, gen) ==
  LET s1 == [self EXCEPT !._state_equation = eq]
      jac_x(o) ==
        update_state_jacobian_function(
          [o EXCEPT !.state_jacobian_equation = grad(o._state_equation, o._state)],
          cv, gen[2])
      jac_u(o) ==
        update_input_jacobian_function(
          [o EXCEPT !.input_jacobian_equation = grad(o._state_equation, o._inputs)],
          cv, gen[3])
      res == Then(Then(update_state_equation_function(s1, cv, gen[1]), jac_x), jac_u)
  IN  IF res.r = NoError THEN res ELSE Raise(self, res.r.exc, res.r.line)

\* Lines 122-129: store, then regenerate the function and both Jacobians.
StoreStateEquation(self, cv, eq, gen) ==
  LET s1 == [self EXCEPT !._state_equation = eq]
      jac_x(o) ==
        update_state_jacobian_function(
          [o EXCEPT !.state_jacobian_equation = grad(o._state_equation, o._state)],
          cv, gen[2])
      jac_u(o) ==
        update_input_jacobian_function(
          [o EXCEPT !.input_jacobian_equation = grad(o._state_equation, o._inputs)],
          cv, gen[3])
  IN  Then(Then(update_state_equation_function(s1, cv, gen[1]), jac_x), jac_u)

\* The state_equation setter without the assert on the length (line 113).
state_equation_setter_NoLengthCheck(self, cv, state_equation, gen) ==
  IF state_equation.tag = "None"
  THEN StoreStateEquation(self, cv, empty_array, gen)
  ELSE IF ~HasLen(state_equation) THEN Raise(self, "TypeError", 113)
  ELSE IF ~(find_dynamicsymbols(state_equation)
              \subseteq (SetOf(self._state) \cup SetOf(self._inputs)))
       THEN Raise(self, "AssertionError", 114)
  ELSE IF ~(atoms_Symbol(state_equation) \subseteq (Keys(cv) \cup {"t"}))
       THEN Raise(self, "AssertionError", 117)
  ELSE StoreStateEquation(self, cv, state_equation, gen)

\* The state_equation setter without the assert on the dynamic symbols
\* (lines 114-116).
state_equation_setter_NoScopeCheck(self, cv, state_equation, gen) ==
  IF state_equation.tag = "None"
  THEN StoreStateEquation(self, cv, empty_array, gen)
  ELSE IF ~HasLen(state_equation) THEN Raise(self, "TypeError", 113)
  ELSE IF len(state_equation) # len(self._state) THEN Raise(self, "AssertionError", 113)
  ELSE IF ~(atoms_Symbol(state_equation) \subseteq (Keys(cv) \cup {"t"}))
       THEN Raise(self, "AssertionError", 117)
  ELSE StoreStateEquation(self, cv, state_equation, gen)

state_equation_setter(self, cv, state_equation, gen) ==
  IF state_equation.tag = "None"
  THEN StoreStateEquation(self, cv, empty_array, gen)
  ELSE IF ~HasLen(state_equation) THEN Raise(self, "TypeError", 113)
  ELSE IF len(state_equation) # len(self._state) THEN Raise(self, "AssertionError", 113)
  ELSE IF ~(find_dynamicsymbols(state_equation)
              \subseteq (SetOf(self._state) \cup SetOf(self._inputs)))
       THEN Raise(self, "AssertionError", 114)
  ELSE IF ~(atoms_Symbol(state_equation) \subseteq (Keys(cv) \cup {"t"}))
       THEN Raise(self, "AssertionError", 117)
  ELSE StoreStateEquation(self, cv, state_equation, gen)

\* The output_equation setter with None standing for the empty vector
\* instead of self.state (line 137).
output_equation_setter_NoneIsEmpty(self, cv, output_equation, gen) ==
  LET oe == IF output_equation.tag = "None" THEN empty_array ELSE output_equation
      s1 == [self EXCEPT !.dim_output = IF HasLen(oe) THEN len(oe) ELSE 1]
  IN  IF ~(atoms_Symbol(oe) \subseteq (Keys(cv) \cup {"t"}))
      THEN Raise(s1, "AssertionError", 143)
      ELSE IF s1.dim_state # 0 /\ ~(find_dynamicsymbols(oe) \subseteq SetOf(s1._state))
      THEN Raise(s1, "AssertionError", 147)
      ELSE IF s1.dim_state = 0 /\ ~(find_dynamicsymbols(oe) \subseteq SetOf(s1._inputs))
      THEN Raise(s1, "AssertionError", 149)
      ELSE update_output_equation_function(
             [s1 EXCEPT !._output_equation = oe], cv, gen[1])

output_equation_setter(self, cv, output_equation, gen) ==
  LET oe == IF output_equation.tag = "None" THEN self._state ELSE output_equation
      s1 == [self EXCEPT !.dim_output = IF HasLen(oe) THEN len(oe) ELSE 1]
  IN  IF ~(atoms_Symbol(oe) \subseteq (Keys(cv) \cup {"t"}))
      THEN Raise(s1, "AssertionError", 143)
      ELSE IF s1.dim_state # 0 /\ ~(find_dynamicsymbols(oe) \subseteq SetOf(s1._state))
      THEN Raise(s1, "AssertionError", 147)
      ELSE IF s1.dim_state = 0 /\ ~(find_dynamicsymbols(oe) \subseteq SetOf(s1._inputs))
      THEN Raise(s1, "AssertionError", 149)
      ELSE update_output_equation_function(
             [s1 EXCEPT !._output_equation = oe], cv, gen[1])

initial_condition_setter(self, initial_condition) ==
  IF initial_condition.tag # "None"
  THEN IF len(initial_condition) # self.dim_state
       THEN Raise(self, "AssertionError", 207)
       ELSE Ok([self EXCEPT !._initial_condition = initial_condition])
  ELSE Ok([self EXCEPT !._initial_condition = np_zeros(self.dim_state)])

(* ------------------------------------------------------------------ *)
(* Construction and copy.                                              *)
(* ------------------------------------------------------------------ *)
\* Every code-generator call of a setter returns.
AllGenerated == <<TRUE, TRUE, TRUE>>

\* DynamicalSystem.__init__ (MemorylessSystem.__init__ forwards to it with
\* the same keyword arguments); ref is the dict object bound to
\* constants_values and cv its content.
init(cls, kw, ref, cv) ==
  LET o0 == [NoInstance EXCEPT !.cls = cls, !.constants_values = ref]
  IN  Then(Then(Then(Then(Then(
        state_setter(o0, kw.state),
        LAMBDA o : initial_condition_setter(o, kw.initial_condition)),
        LAMBDA o : input_setter(o, kw.input_)),
        LAMBDA o : state_equation_setter(o, cv, kw.state_equation, AllGenerated)),
        LAMBDA o : output_equation_setter(o, cv, kw.output_equation, AllGenerated)),
        LAMBDA o : Ok([o EXCEPT !.dt = kw.dt]))

\* The keyword arguments copy() passes to self.__class__.
CopyArgs(self) ==
  [state_equation |-> self._state_equation,
   state |-> self._state,
   input_ |-> self._inputs,
   output_equation |-> self._output_equation,
   dt |-> self.dt,
   initial_condition |-> None]

\* copy(): the reconstruction, then the two callables of the source.  An
\* attribute that no code path has assigned does not exist, and reading it
\* raises AttributeError.
\* copy() without lines 224-225: the reconstruction alone.
copy_Reconstructed(self, cv) ==
  init(self.cls, CopyArgs(self), self.constants_values, cv)

copy(self, cv) ==
  LET made == init(self.cls, CopyArgs(self), self.constants_values, cv)
  IN  IF made.r # NoError THEN made
      ELSE IF self.output_equation_function.tag = "absent"
      THEN Raise(made.o, "AttributeError", 224)
      ELSE IF self.state_equation_function.tag = "absent"
      THEN Raise([made.o EXCEPT !.output_equation_function = self.output_equation_function],
                 "AttributeError", 225)
      ELSE Ok([made.o EXCEPT
                 !.output_equation_function = self.output_equation_function,
                 !.state_equation_function = self.state_equation_function])

(* ------------------------------------------------------------------ *)
(* The values the callers assign.                                      *)
(* ------------------------------------------------------------------ *)
X == DynSym("x")
U == DynSym("u")
\* -x and -y
NegX == Comp(<<"neg">>, {"x"}, {})
NegY == Comp(<<"neg">>, {"y"}, {})
\* a*x + u
Lin == Comp(<<"lin">>, {"x", "u"}, {"a"})
\* a*u
Gain == Comp(<<"gain">>, {"u"}, {"a"})

StateVals == {None, Scalar(X), Arr(<<>>), Arr(<<X>>)}
InputVals == {None, Scalar(U), Arr(<<U>>)}
StateEqVals ==
  {None, Scalar(NegX), Arr(<<>>), Arr(<<NegX>>), Arr(<<Lin>>), Arr(<<NegX, NegY>>)}
OutputEqVals == {None, Scalar(Gain), Arr(<<NegX>>), Arr(<<NegX, NegY>>)}
InitialVals == {None, NdArray(<<1>>)}
ConstNames == {"a"}
ConstValues == 1..MaxConstValue
\* The dicts a caller passes as constants_values.
ConstDicts == {{}} \cup {{<<k, v>>} : k \in ConstNames, v \in ConstValues}
Classes == {"DynamicalSystem", "MemorylessSystem"}

\* Keyword arguments of a construction; constants_given tells whether the
\* caller passes constants_values at all.
CtorArgs ==
  [state_equation : StateEqVals, state : StateVals, input_ : InputVals,
   output_equation : OutputEqVals, dt : {0}, initial_condition : InitialVals,
   constants_given : BOOLEAN, constants_values : ConstDicts]

\* The smaller choice of values for runs with two instances.
PairStateVals == {None, Arr(<<X>>)}
PairStateEqVals == {None, Arr(<<Lin>>)}
PairCtorArgs ==
  [state_equation : PairStateEqVals, state : PairStateVals, input_ : {Arr(<<U>>)},
   output_equation : {None}, dt : {0}, initial_condition : {None},
   constants_given : BOOLEAN, constants_values : ConstDicts]

(* ------------------------------------------------------------------ *)
(* Operations.  last records the operation just performed, the         *)
(* instance it was performed through and how it ended.                 *)
(* ------------------------------------------------------------------ *)
Done(op, i, res) == last' = [op |-> op, inst |-> i, res |-> res]

Exists(i) == sys[i].cls # "none"

\* The content of the dict instance i holds.
ConstantsOf(i) == heap[sys[i].constants_values]

Init ==
  /\ sys = [i \in Insts |-> NoInstance]
  /\ heap = [r \in Refs |-> {}]
  /\ last = [op |-> "start", inst |-> "s", res |-> NoError]
  /\ copied = {}

\* sys[i] = cls(**kw) for some class and some keyword arguments of Args:
\* without constants_values the instance gets the one dict object of the
\* default argument, otherwise the caller's dict.
Construct(i, Args) ==
  /\ ~Exists(i)
  /\ \E cls \in Classes, kw \in Args :
       /\ ~kw.constants_given => kw.constants_values = {}
       /\ LET ref == IF kw.constants_given THEN i ELSE "default"
              cv == IF kw.constants_given THEN kw.constants_values ELSE heap["default"]
              made == init(cls, kw, ref, cv)
          IN  /\ sys' = IF made.r = NoError THEN [sys EXCEPT ![i] = made.o] ELSE sys
              /\ heap' = IF made.r = NoError THEN [heap EXCEPT ![ref] = cv] ELSE heap
              /\ Done(cls, i, made.r)
  /\ UNCHANGED copied

\* sys[i].state = v
AssignState(i, v) ==
  /\ Exists(i)
  /\ LET res == state_setter(sys[i], v)
     IN  sys' = [sys EXCEPT ![i] = res.o] /\ Done("state", i, res.r)
  /\ UNCHANGED <<heap, copied>>

\* sys[i].input = v
AssignInput(i, v) ==
  /\ Exists(i)
  /\ LET res == input_setter(sys[i], v)
     IN  sys' = [sys EXCEPT ![i] = res.o] /\ Done("input", i, res.r)
  /\ UNCHANGED <<heap, copied>>

\* sys[i].state_equation = v
AssignStateEquation(i, v, gen) ==
  /\ Exists(i)
  /\ LET res == state_equation_setter(sys[i], ConstantsOf(i), v, gen)
     IN  sys' = [sys EXCEPT ![i] = res.o] /\ Done("state_equation", i, res.r)
  /\ UNCHANGED <<heap, copied>>

\* sys[i].output_equation = v
AssignOutputEquation(i, v, gen) ==
  /\ Exists(i)
  /\ LET res == output_equation_setter(sys[i], ConstantsOf(i), v, gen)
     IN  sys' = [sys EXCEPT ![i] = res.o] /\ Done("output_equation", i, res.r)
  /\ UNCHANGED <<heap, copied>>

\* sys[i].initial_condition = v
AssignInitialCondition(i, v) ==
  /\ Exists(i)
  /\ LET res == initial_condition_setter(sys[i], v)
     IN  sys' = [sys EXCEPT ![i] = res.o] /\ Done("initial_condition", i, res.r)
  /\ UNCHANGED <<heap, copied>>

\* sys[j] = sys[i].copy()
Copy(i, j) ==
  /\ Exists(i) /\ ~Exists(j)
  /\ LET res == copy(sys[i], ConstantsOf(i))
     IN  /\ sys' = IF res.r = NoError THEN [sys EXCEPT ![j] = res.o] ELSE sys
         /\ copied' = IF res.r = NoError THEN copied \cup {<<i, j>>} ELSE copied
         /\ Done("copy", i, res.r)
  /\ UNCHANGED heap

\* sys[i].constants_values[k] = v
SetConstant(i, k, v) ==
  /\ Exists(i)
  /\ heap' = [heap EXCEPT ![sys[i].constants_values] =
                {p \in @ : p[1] # k} \cup {<<k, v>>}]
  /\ Done("set_constant", i, NoError)
  /\ UNCHANGED <<sys, copied>>

\* del sys[i].constants_values[k]
DelConstant(i, k) ==
  /\ Exists(i)
  /\ k \in Keys(ConstantsOf(i))
  /\ heap' = [heap EXCEPT ![sys[i].constants_values] = {p \in @ : p[1] # k}]
  /\ Done("del_constant", i, NoError)
  /\ UNCHANGED <<sys, copied>>

\* One instance, s, and every assignment to it.
Next ==
  \/ Construct("s", CtorArgs)
  \/ \E v \in StateVals : AssignState("s", v)
  \/ \E v \in InputVals : AssignInput("s", v)
  \/ \E v \in StateEqVals : AssignStateEquation("s", v, AllGenerated)
  \/ \E v \in OutputEqVals : AssignOutputEquation("s", v, AllGenerated)
  \/ \E v \in InitialVals : AssignInitialCondition("s", v)
  \/ \E k \in ConstNames, v \in ConstValues : SetConstant("s", k, v)
  \/ \E k \in ConstNames : DelConstant("s", k)

Spec == Init /\ [][Next]_vars

\* Two instances, made by construction or by copy.
NextPair ==
  \/ \E i \in Insts : Construct(i, PairCtorArgs)
  \/ \E i, j \in Insts : Copy(i, j)
  \/ \E i \in Insts, v \in PairStateVals : AssignState(i, v)
  \/ \E i \in Insts, v \in PairStateEqVals : AssignStateEquation(i, v, AllGenerated)
  \/ \E i \in Insts, k \in ConstNames, v \in ConstValues : SetConstant(i, k, v)
  \/ \E i \in Insts, k \in ConstNames : DelConstant(i, k)

SpecPair == Init /\ [][NextPair]_vars

\* An instance s, every assignment to it, and its copy c.
NextCopy ==
  \/ Construct("s", PairCtorArgs)
  \/ Copy("s", "c")
  \/ \E v \in PairStateVals : AssignState("s", v)
  \/ \E v \in PairStateEqVals : AssignStateEquation("s", v, AllGenerated)
  \/ AssignOutputEquation("s", None, AllGenerated)
  \/ \E v \in InitialVals : AssignInitialCondition("s", v)
  \/ \E k \in ConstNames, v \in ConstValues : SetConstant("s", k, v)
  \/ \E k \in ConstNames : DelConstant("s", k)

SpecCopy == Init /\ [][NextCopy]_vars

\* What the code generator does at the calls of one assignment: it returns
\* at every call, or raises at the first, the second or the third.
GenOutcomes ==
  {AllGenerated, <<FALSE, TRUE, TRUE>>, <<TRUE, FALSE, TRUE>>, <<TRUE, TRUE, FALSE>>}

GenStateEqVals == {None, Arr(<<NegX>>), Arr(<<Lin>>)}
GenOutputEqVals == {None, Arr(<<NegX>>)}

\* One instance, s, with a code generator that may raise during the
\* assignments made after the construction.
NextGen ==
  \/ Construct("s", PairCtorArgs)
  \/ \E v \in PairStateVals : AssignState("s", v)
  \/ \E v \in GenStateEqVals, gen \in GenOutcomes : AssignStateEquation("s", v, gen)
  \/ \E v \in GenOutputEqVals, gen \in GenOutcomes : AssignOutputEquation("s", v, gen)

SpecGen == Init /\ [][NextGen]_vars

(* ------------------------------------------------------------------ *)
(* Properties.                                                         *)
(* ------------------------------------------------------------------ *)
Succeeded(ops) == last.op \in ops /\ last.res = NoError /\ Exists(last.inst)
Failed(op, exc, line) == last.op = op /\ last.res = [exc |-> exc, line |-> line]

EquationSetters == {"state_equation", "output_equation"}
VectorSetters == {"state", "input"}

\* The expression a subs() result came from: the bound Symbols put back.
UnboundComp(e) == [e EXCEPT !.sym = e.sym \cup Keys(e.vals), !.vals = {}]
Unbound(v) ==
  IF v.tag = "Matrix"
  THEN Mat([r \in 1..Len(v.elems) |->
              [c \in 1..Len(v.elems[r]) |-> UnboundComp(v.elems[r][c])]])
  ELSE [v EXCEPT !.elems = [k \in 1..Len(v.elems) |-> UnboundComp(v.elems[k])]]

\* A callable, if there is one, was compiled over args from expr.
GeneratedFrom(fn, args, expr) ==
  fn.tag = "callable" =>
    /\ fn.args = args
    /\ fn.expr.tag = expr.tag
    /\ Unbound(fn.expr) = expr

\* Every callable of o that exists is the one its current vectors and
\* equations give.
Current(o) ==
  /\ GeneratedFrom(o.state_equation_function, StateEquationArgs(o), o._state_equation)
  /\ GeneratedFrom(o.state_jacobian_equation_function, StateEquationArgs(o),
                   grad(o._state_equation, o._state))
  /\ GeneratedFrom(o.input_jacobian_equation_function, StateEquationArgs(o),
                   grad(o._state_equation, o._inputs))
  /\ GeneratedFrom(o.output_equation_function, OutputEquationArgs(o), o._output_equation)

\* C1: when construction or a setter of state, input, state_equation or
\* output_equation has returned, every callable that exists was generated
\* from the instance's current state vector, input vector and equation.
C1_NoStaleCallable ==
  Succeeded(Classes \cup VectorSetters \cup EquationSetters) => Current(sys[last.inst])

\* C2: an assignment to state_equation, output_equation or
\* initial_condition that validation rejects (a failed assert) changes no
\* field of the instance and no constants dictionary.
C2_RejectedAssignmentChangesNothing ==
  [][(/\ last'.op \in EquationSetters \cup {"initial_condition"}
      /\ last'.res.exc = "AssertionError")
     => (sys' = sys /\ heap' = heap)]_vars

\* C3: after construction and after every successful assignment the stored
\* state equation is as long as the stored state vector, which is dim_state
\* long.
C3_StateEquationLength ==
  Succeeded(Classes \cup VectorSetters \cup EquationSetters \cup {"initial_condition"}) =>
    /\ len(sys[last.inst]._state_equation) = sys[last.inst].dim_state
    /\ sys[last.inst].dim_state = len(sys[last.inst]._state)

\* C4: after construction and after every successful assignment the stored
\* initial condition has dim_state entries.
C4_InitialConditionLength ==
  Succeeded(Classes \cup VectorSetters \cup EquationSetters \cup {"initial_condition"}) =>
    len(sys[last.inst]._initial_condition) = sys[last.inst].dim_state

\* The symbol scopes of the two stored equations of o.
StateEquationClosed(o) ==
  find_dynamicsymbols(o._state_equation) \subseteq (SetOf(o._state) \cup SetOf(o._inputs))
OutputEquationClosed(o) ==
  find_dynamicsymbols(o._output_equation)
    \subseteq (IF o.dim_state > 0 THEN SetOf(o._state) ELSE SetOf(o._inputs))

\* C5: after construction and after every successful assignment to state,
\* input, state_equation or output_equation, the dynamic symbols of the state
\* equation are among state and input, and those of the output equation are
\* among the state if dim_state > 0 and among the input if dim_state = 0.
C5_SymbolClosure ==
  Succeeded(Classes \cup VectorSetters \cup EquationSetters) =>
    /\ StateEquationClosed(sys[last.inst])
    /\ OutputEquationClosed(sys[last.inst])

\* A vector of at least one entry; a bare expression stands for one entry.
NonEmpty(v) == v.tag # "None" /\ (HasLen(v) => len(v) > 0)

\* C6: a MemorylessSystem has dim_state = 0 and the empty state vector; every
\* assignment of a non-empty state to it raises and leaves the instance as it
\* was, and no construction of one with a non-empty state succeeds.
C6_MemorylessStateEmpty ==
  /\ \A i \in Insts :
       sys[i].cls = "MemorylessSystem" =>
         /\ sys[i].dim_state = 0
         /\ sys[i]._state = empty_array
         /\ \A v \in StateVals :
              NonEmpty(v) => state_setter(sys[i], v) = Raise(sys[i], "ValueError", 264)
  /\ last.op = "start" =>
       \A kw \in CtorArgs :
         NonEmpty(kw.state) =>
           init("MemorylessSystem", kw, "s", kw.constants_values).r.exc = "ValueError"

\* C6 happens: a state assignment to a MemorylessSystem has just been refused.
C6_Witness ==
  /\ Failed("state", "ValueError", 264)
  /\ sys[last.inst].cls = "MemorylessSystem"
  /\ sys[last.inst].dim_input > 0

\* The fields copy() hands to the reconstruction agree between a and b.
SameSpecification(a, b) ==
  /\ a.cls = b.cls
  /\ a._state = b._state
  /\ a._inputs = b._inputs
  /\ a._state_equation = b._state_equation
  /\ a._output_equation = b._output_equation
  /\ heap[a.constants_values] = heap[b.constants_values]
  /\ a.dt = b.dt

\* C7: copy() on a constructed instance, stateful or memoryless, returns
\* without error an instance of the same class with the same state vector,
\* input vector, equations, constants and dt.
C7_CopySucceeds ==
  last.op = "copy" =>
    /\ last.res = NoError
    /\ \E j \in Insts : <<last.inst, j>> \in copied /\ SameSpecification(sys[last.inst], sys[j])

\* i and j are an instance and its copy, in either order.
CopyPair(i, j) == <<i, j>> \in copied \/ <<j, i>> \in copied

MutatesConstants(op) == op \in {"set_constant", "del_constant"}

\* C8: once j is a copy of i (or i of j), adding, changing or removing an
\* entry of j's constants map leaves the constants i compiles its callables
\* with as they were.
C8_CopyConstantsIndependent ==
  [][\A i, j \in Insts :
       (CopyPair(i, j) /\ MutatesConstants(last'.op) /\ last'.inst = j)
         => ConstantsOf(i)' = ConstantsOf(i)]_vars

\* C9: whatever is done through one instance leaves every other instance,
\* and the constants map it holds, as they were; stated for instances made
\* by construction, none of them a copy.
C9_InstancesShareNothing ==
  [][\A i \in Insts :
       (copied' = {} /\ Exists(i) /\ last'.inst # i)
         => (sys'[i] = sys[i] /\ ConstantsOf(i)' = ConstantsOf(i))]_vars

\* The length of an assigned equation; a bare expression stands for a vector
\* of one entry.
EquationLength(v) == IF HasLen(v) THEN len(v) ELSE 1

\* C10: assigning a state equation (any value but None) whose length differs
\* from the length of the current state vector fails at the length check and
\* leaves the instance, with its stored equation and callables, as it was.
C10_LengthMismatchRejected ==
  \A i \in Insts :
    Exists(i) =>
      \A v \in StateEqVals :
        (v.tag # "None" /\ EquationLength(v) # len(sys[i]._state)) =>
          LET res == state_equation_setter(sys[i], ConstantsOf(i), v, AllGenerated)
          IN  /\ res.r.exc \in {"AssertionError", "TypeError"}
              /\ res.r.line = 113
              /\ res.o = sys[i]

\* C10 happens: the length check has just refused an equation, and the
\* equation and callable stored before are still there.
C10_Witness ==
  /\ Failed("state_equation", "AssertionError", 113)
  /\ len(sys[last.inst]._state_equation) > 0
  /\ sys[last.inst].state_equation_function.tag = "callable"

\* The dynamic symbols of v that are neither in the state nor in the input
\* of o.
OutOfScope(o, v) == find_dynamicsymbols(v) \ (SetOf(o._state) \cup SetOf(o._inputs))

\* C11: assigning a state equation or an output equation that holds a
\* dynamic symbol outside the current state and input raises, on a
\* DynamicalSystem and on a MemorylessSystem, and the equation stored before
\* is still the stored one.
C11_OutOfScopeRejected ==
  \A i \in Insts :
    Exists(i) =>
      /\ \A v \in StateEqVals :
           OutOfScope(sys[i], v) # {} =>
             LET res == state_equation_setter(sys[i], ConstantsOf(i), v, AllGenerated)
             IN  /\ res.r # NoError
                 /\ res.o._state_equation = sys[i]._state_equation
      /\ \A v \in OutputEqVals :
           OutOfScope(sys[i], v) # {} =>
             LET res == output_equation_setter(sys[i], ConstantsOf(i), v, AllGenerated)
             IN  /\ res.r # NoError
                 /\ res.o._output_equation = sys[i]._output_equation

\* C11 happens: the assert on the dynamic symbols has just refused a state
\* equation of the right length, and a non-empty equation is still stored.
C11_Witness ==
  /\ Failed("state_equation", "AssertionError", 114)
  /\ len(sys[last.inst]._state_equation) > 0

\* The callable the code generator returns for equation eq of o under the
\* constants cv.
Compiled(o, eq, cv) ==
  code_generator(<<TimeSymbol>> \o flatten(o._state) \o flatten(o._inputs), subs(eq, cv))

\* C12: right after c = s.copy() has returned, c.output_equation_function
\* and c.state_equation_function are the callables s holds, c's two Jacobian
\* callables are those its own reconstruction generated (none if c has no
\* state), and c's initial condition is the zero vector of length dim_state.
C12_CopyReusesCallables ==
  (last.op = "copy" /\ last.res = NoError) =>
    \A j \in Insts :
      <<last.inst, j>> \in copied =>
        LET s == sys[last.inst]
            c == sys[j]
        IN  /\ c.output_equation_function = s.output_equation_function
            /\ c.state_equation_function = s.state_equation_function
            /\ c.state_jacobian_equation_function =
                 IF c.dim_state > 0
                 THEN Compiled(c, grad(c._state_equation, c._state), ConstantsOf(j))
                 ELSE NoFn
            /\ c.input_jacobian_equation_function =
                 IF c.dim_state > 0
                 THEN Compiled(c, grad(c._state_equation, c._inputs), ConstantsOf(j))
                 ELSE NoFn
            /\ c._initial_condition = np_zeros(c.dim_state)

\* C12 happens: copy() has just returned for a source with a state, whose
\* state-equation callable is not the one its present constants would give,
\* whose state Jacobian callable is not either, and whose initial condition
\* is not the zero vector.
C12_Witness ==
  /\ last.op = "copy" /\ last.res = NoError
  /\ sys[last.inst].dim_state > 0
  /\ sys[last.inst].state_equation_function
       # Compiled(sys[last.inst], sys[last.inst]._state_equation, ConstantsOf(last.inst))
  /\ sys[last.inst].state_jacobian_equation_function
       # Compiled(sys[last.inst],
                  grad(sys[last.inst]._state_equation, sys[last.inst]._state),
                  ConstantsOf(last.inst))
  /\ sys[last.inst]._initial_condition # np_zeros(sys[last.inst].dim_state)

Setters == VectorSetters \cup EquationSetters \cup {"initial_condition"}

\* The callables the state-equation setter generates.
StateCallables(o) ==
  <<o.state_equation_function, o.state_jacobian_equation_function,
    o.input_jacobian_equation_function>>

\* A setter that ends with dim_state = 0 has generated no state-equation or
\* Jacobian callable, and one that ends with dim_output = 0 no output
\* callable.
NoGenerationWithoutDimension(i) ==
  (last'.inst = i /\ last'.op \in Setters) =>
    /\ sys'[i].dim_state = 0 => StateCallables(sys[i])' = StateCallables(sys[i])
    /\ sys'[i].dim_output = 0 =>
         sys'[i].output_equation_function = sys[i].output_equation_function

\* Instance i comes into being in this step.
Created(i) == ~Exists(i) /\ Exists(i)'

C14_NoneIsDefault ==
  /\ \A i \in Insts :
       Exists(i) =>
         LET st == state_setter(sys[i], None)
             inp == input_setter(sys[i], None)
             ic == initial_condition_setter(sys[i], None)
             out == output_equation_setter(sys[i], ConstantsOf(i), None, AllGenerated)
         IN  /\ st.r = NoError /\ len(st.o._state) = 0 /\ st.o.dim_state = 0
             /\ inp.r = NoError /\ len(inp.o._inputs) = 0 /\ inp.o.dim_input = 0
             /\ ic.r = NoError
             /\ len(ic.o._initial_condition) = sys[i].dim_state
             /\ \A k \in 1..sys[i].dim_state : ic.o._initial_condition.elems[k] = 0
             /\ out.r = NoError
             /\ out.o._output_equation = sys[i]._state
             /\ out.o.dim_output = sys[i].dim_state
  /\ last.op = "start" =>
       \A kw \in CtorArgs :
         kw.output_equation = None =>
           LET made == init("DynamicalSystem", kw, "s", kw.constants_values)
           IN  made.r = NoError =>
                 /\ made.o._output_equation = made.o._state
                 /\ made.o.dim_output = made.o.dim_state

\* C14 happens: an assignment to output_equation has just left the state
\* vector, of one entry, as the output equation.
C14_Witness ==
  /\ Succeeded({"output_equation"})
  /\ sys[last.inst].dim_state > 0
  /\ sys[last.inst]._output_equation = sys[last.inst]._state
  /\ sys[last.inst].dim_output = sys[last.inst].dim_state

\* C15: on an instance with one state and one input symbol, assigning a bare
\* expression (valid as a vector of one entry) to state, input,
\* state_equation or output_equation succeeds and stores the vector of that
\* one entry, with the dimension of the field, where there is one, at 1.
C15_ScalarWrapped ==
  \A i \in Insts :
    (Exists(i) /\ sys[i]._state = Arr(<<X>>) /\ sys[i]._inputs = Arr(<<U>>)) =>
      LET st == state_setter(sys[i], Scalar(X))
          inp == input_setter(sys[i], Scalar(U))
          eq == state_equation_setter(sys[i], ConstantsOf(i), Scalar(NegX), AllGenerated)
          out == output_equation_setter(sys[i], ConstantsOf(i), Scalar(NegX), AllGenerated)
      IN  /\ st.r = NoError /\ st.o._state = Arr(<<X>>) /\ st.o.dim_state = 1
          /\ inp.r = NoError /\ inp.o._inputs = Arr(<<U>>) /\ inp.o.dim_input = 1
          /\ eq.r = NoError /\ eq.o._state_equation = Arr(<<NegX>>)
          /\ out.r = NoError /\ out.o._output_equation = Arr(<<NegX>>)
          /\ out.o.dim_output = 1

\* C16: the callables a construction or an equation assignment has just
\* generated were compiled from the equation with the constants substituted,
\* over (t, state symbols, input symbols) for the state equation and its two
\* Jacobians, and for the output equation over (t, state symbols) if
\* dim_state > 0 and over (t, input symbols) if dim_state = 0.
C16_GeneratorArguments ==
  LET o == sys[last.inst]
      cv == ConstantsOf(last.inst)
      t_x_u == <<TimeSymbol>> \o o._state.elems \o o._inputs.elems
      t_x == <<TimeSymbol>> \o o._state.elems
      t_u == <<TimeSymbol>> \o o._inputs.elems
  IN  /\ (Succeeded(Classes \cup {"state_equation"}) /\ o.dim_state > 0) =>
           /\ o.state_equation_function =
                [tag |-> "callable", args |-> t_x_u, expr |-> subs(o._state_equation, cv)]
           /\ o.state_jacobian_equation_function =
                [tag |-> "callable", args |-> t_x_u,
                 expr |-> subs(grad(o._state_equation, o._state), cv)]
           /\ o.input_jacobian_equation_function =
                [tag |-> "callable", args |-> t_x_u,
                 expr |-> subs(grad(o._state_equation, o._inputs), cv)]
      /\ (Succeeded(Classes \cup {"output_equation"}) /\ o.dim_output > 0) =>
           o.output_equation_function =
             [tag |-> "callable",
              args |-> IF o.dim_state > 0 THEN t_x ELSE t_u,
              expr |-> subs(o._output_equation, cv)]

\* C16 happens: a state equation a*x + u has just been assigned to an
\* instance with a state, an input and a value for the constant a.
C16_Witness ==
  /\ Succeeded({"state_equation"})
  /\ sys[last.inst]._state_equation = Arr(<<Lin>>)
  /\ sys[last.inst].dim_state > 0
  /\ sys[last.inst].dim_input > 0
  /\ ConstantsOf(last.inst) # {}

\* C17: in every reachable state, whatever assignments succeeded or failed
\* before, dim_state is the length of the stored state vector and dim_input
\* the length of the stored input vector.
C17_DimensionsMatchVectors ==
  \A i \in Insts :
    Exists(i) =>
      /\ sys[i]._state.tag = "Array" /\ sys[i].dim_state = Len(sys[i]._state.elems)
      /\ sys[i]._inputs.tag = "Array" /\ sys[i].dim_input = Len(sys[i]._inputs.elems)

\* C17 happens: an assignment has just failed on an instance whose state and
\* input vectors have one entry each.
C17_Witness ==
  /\ last.op \in Setters /\ last.res # NoError
  /\ Exists(last.inst)
  /\ sys[last.inst].dim_state = 1
  /\ sys[last.inst].dim_input = 1

\* The exceptions of a setter's validation.
Rejections == {"AssertionError", "TypeError"}

\* The equation the state_equation setter stores for the value v.
StoredEquation(v) == IF v.tag = "None" THEN empty_array ELSE v

JacobianEquations(o) == <<o.state_jacobian_equation, o.input_jacobian_equation>>
JacobianCallables(o) ==
  <<o.state_jacobian_equation_function, o.input_jacobian_equation_function>>

\* The line of the first code-generator call of a state_equation assignment
\* that raises under gen, 0 if none does.
FailureAt(gen) ==
  IF ~gen[1] THEN 156 ELSE IF ~gen[2] THEN 166 ELSE IF ~gen[3] THEN 177 ELSE 0

\* The result res of a state_equation assignment is one that gen can give:
\* a generator error comes from the call that raises under gen, and there is
\* none if every call returns.
Shows(res, gen) ==
  IF res.exc = "CodeGeneratorError" THEN res.line = FailureAt(gen) ELSE gen = AllGenerated

\* C18, as the claim has it: a state_equation assignment (the code generator
\* returning at every call) derives the two Jacobian expressions from the new
\* equation and compiles them if it passes validation with dim_state > 0;
\* otherwise, so also when dim_state = 0, it leaves the Jacobian expressions
\* and their callables as they were.
C18_JacobiansOnlyWithState ==
  [][\A i \in Insts, v \in GenStateEqVals :
       (last'.op = "state_equation" /\ last'.inst = i
          /\ AssignStateEquation(i, v, AllGenerated)) =>
         IF last'.res = NoError /\ sys[i].dim_state > 0
         THEN /\ JacobianEquations(sys[i])' =
                   <<grad(StoredEquation(v), sys[i]._state),
                     grad(StoredEquation(v), sys[i]._inputs)>>
              /\ JacobianCallables(sys[i])' =
                   <<Compiled(sys[i], grad(StoredEquation(v), sys[i]._state), ConstantsOf(i)),
                     Compiled(sys[i], grad(StoredEquation(v), sys[i]._inputs), ConstantsOf(i))>>
         ELSE /\ JacobianEquations(sys[i])' = JacobianEquations(sys[i])
              /\ JacobianCallables(sys[i])' = JacobianCallables(sys[i])]_vars

\* C18, amended: a state_equation assignment that validation rejects changes
\* nothing; one that passes runs, in this order and as far as the code
\* generator does not raise: the state-equation function is regenerated, the
\* state Jacobian is derived from the new equation and compiled, the input
\* Jacobian is derived from the new equation and compiled.  With
\* dim_state = 0 both Jacobian expressions are derived all the same, and only
\* the three code generations are left out.
C18_JacobianOrder ==
  [][\A i \in Insts, v \in GenStateEqVals, gen \in GenOutcomes :
       (last'.op = "state_equation" /\ last'.inst = i
          /\ Shows(last'.res, gen)
          /\ AssignStateEquation(i, v, gen)) =>
         LET eq == StoredEquation(v)
             jx == grad(eq, sys[i]._state)
             ju == grad(eq, sys[i]._inputs)
             cv == ConstantsOf(i)
             stateful == sys[i].dim_state > 0
             ran1 == stateful /\ gen[1]
             ran2 == ran1 /\ gen[2]
             ran3 == ran2 /\ gen[3]
         IN  IF last'.res.exc \in Rejections
             THEN sys'[i] = sys[i]
             ELSE /\ sys'[i]._state_equation = eq
                  /\ sys'[i].state_equation_function =
                       IF ran1 THEN Compiled(sys[i], eq, cv)
                       ELSE sys[i].state_equation_function
                  /\ sys'[i].state_jacobian_equation =
                       IF ran1 \/ ~stateful THEN jx ELSE sys[i].state_jacobian_equation
                  /\ sys'[i].state_jacobian_equation_function =
                       IF ran2 THEN Compiled(sys[i], jx, cv)
                       ELSE sys[i].state_jacobian_equation_function
                  /\ sys'[i].input_jacobian_equation =
                       IF ran2 \/ ~stateful THEN ju ELSE sys[i].input_jacobian_equation
                  /\ sys'[i].input_jacobian_equation_function =
                       IF ran3 THEN Compiled(sys[i], ju, cv)
                       ELSE sys[i].input_jacobian_equation_function]_vars

\* C18 happens: the code generator has just raised at the state Jacobian of
\* a state equation a*x + u, which is stored with its state Jacobian derived,
\* while the input Jacobian is still that of another equation.
C18_Witness ==
  /\ Failed("state_equation", "CodeGeneratorError", 166)
  /\ sys[last.inst]._state_equation = Arr(<<Lin>>)
  /\ sys[last.inst].state_jacobian_equation
       = grad(sys[last.inst]._state_equation, sys[last.inst]._state)
  /\ sys[last.inst].input_jacobian_equation
       # grad(sys[last.inst]._state_equation, sys[last.inst]._inputs)

\* What the output_equation setter stores for the value v on instance o.
StoredOutput(o, v) == IF v.tag = "None" THEN o._state ELSE v

\* C19: when the code generator raises during an assignment to
\* state_equation or output_equation of a constructed instance, the caller
\* gets that error, the new equation is stored (with the new dim_output for
\* an output equation), and the callable whose generation raised and those
\* that would have been generated after it are the ones from before.
C19_GeneratorErrorLeavesEquation ==
  [][\A i \in Insts, gen \in GenOutcomes \ {AllGenerated} :
       /\ \A v \in GenStateEqVals :
            (/\ last'.op = "state_equation" /\ last'.inst = i
             /\ last'.res.exc \notin Rejections
             /\ last'.res.exc = "CodeGeneratorError" => last'.res.line = FailureAt(gen)
             /\ sys[i].dim_state > 0
             /\ AssignStateEquation(i, v, gen)) =>
              /\ last'.res = [exc |-> "CodeGeneratorError", line |-> FailureAt(gen)]
              /\ sys'[i]._state_equation = StoredEquation(v)
              /\ ~gen[1] => sys'[i].state_equation_function = sys[i].state_equation_function
              /\ (~gen[1] \/ ~gen[2]) =>
                   sys'[i].state_jacobian_equation_function
                     = sys[i].state_jacobian_equation_function
              /\ sys'[i].input_jacobian_equation_function
                   = sys[i].input_jacobian_equation_function
       /\ \A v \in GenOutputEqVals :
            (/\ last'.op = "output_equation" /\ last'.inst = i
             /\ last'.res.exc \notin Rejections
             /\ ~gen[1]
             /\ sys'[i].dim_output > 0
             /\ AssignOutputEquation(i, v, gen)) =>
              /\ last'.res.exc = "CodeGeneratorError"
              /\ last'.res.line \in {188, 194}
              /\ sys'[i]._output_equation = StoredOutput(sys[i], v)
              /\ sys'[i].dim_output = len(StoredOutput(sys[i], v))
              /\ sys'[i].output_equation_function = sys[i].output_equation_function]_vars

\* C19 happens: the code generator has just raised at the state-equation
\* function; the instance holds a state-equation callable, which is not the
\* one of the equation now stored.
C19_Witness ==
  /\ Failed("state_equation", "CodeGeneratorError", 156)
  /\ sys[last.inst].state_equation_function.tag = "callable"
  /\ sys[last.inst].state_equation_function
       # Compiled(sys[last.inst], sys[last.inst]._state_equation, ConstantsOf(last.inst))

\* C20: the state setter of a MemorylessSystem takes None and nothing else:
\* every other value, the empty vector among them, raises ValueError with
\* dim_state and the stored state untouched; copy(), which hands the stored
\* empty vector to the reconstruction, ends in that ValueError.
C20_MemorylessStateOnlyNone ==
  \A i \in Insts :
    sys[i].cls = "MemorylessSystem" =>
      /\ \A v \in StateVals \cup {empty_array} :
           LET res == state_setter(sys[i], v)
           IN  IF v = None
               THEN res.r = NoError
               ELSE /\ res.r = [exc |-> "ValueError", line |-> 264]
                    /\ res.o.dim_state = sys[i].dim_state
                    /\ res.o._state = sys[i]._state
      /\ copy(sys[i], ConstantsOf(i)).r = [exc |-> "ValueError", line |-> 264]

\* C20 happens: copy() of a MemorylessSystem has just assigned the empty
\* state vector to the instance under reconstruction and got the ValueError.
C20_Witness ==
  /\ Failed("copy", "ValueError", 264)
  /\ sys[last.inst].cls = "MemorylessSystem"
  /\ sys[last.inst]._state = empty_array

====
